---- MODULE Spec2Model ----
(***************************************************************************)
(* A model of the GPT-OSS Flask chatbot: the request handlers of app.py    *)
(* (chat, history, search_csv, clear_history, reload_csv) over the shared  *)
(* session map and table mapping, and the search and response composer of  *)
(* gptoss_model.py.                                                        *)
(*                                                                         *)
(* Text is a sequence of characters, each character a one-character        *)
(* string ("U+2022" names the code point of a non-ASCII character), so     *)
(* that lower-casing, stripping, substring tests and string formatting are *)
(* computed rather than assumed.                                           *)
(***************************************************************************)
EXTENDS Integers, Sequences, FiniteSets, TLC

VARIABLES
    session,        \* Flask's signed cookie of each client: its session_id or None
    chat_sessions,  \* app.py chat_sessions: session_id -> ChatSession
    csv_data,       \* gptoss_model.csv_data: the dict object currently bound
    data_dir,       \* the files of the data directory that load_csv_data reads
    now,            \* datetime.now(), as a logical clock
    loads,          \* how many dict objects load_csv_data has built (object identity)
    request,        \* the request handled last
    reply,          \* the reply to it
    composed,       \* the locals of the last generate_response call
    workers,        \* chat requests in flight, interleaved at add_message's steps
    appended,       \* per session, the turns appended since its last clear, in order
    searches,       \* searches in flight, one table at a time
    reloader,       \* the reload_csv request in flight
    text_input,     \* the argument of _generate_text_response
    text_response   \* its result

vars == <<session, chat_sessions, csv_data, data_dir, now, loads, request, reply,
          composed, workers, appended, searches, reloader, text_input, text_response>>

\* Python's None, where a text is expected and where an object is expected (two
\* values, so that each is comparable with the values it stands in for)
None == <<"None">>
NoObject == [none |-> TRUE]

(***************************************************************************)
(* Python's str operations on character sequences.                         *)
(***************************************************************************)
ascii_uppercase ==
    <<"A", "B", "C", "D", "E", "F", "G", "H", "I", "J", "K", "L", "M",
      "N", "O", "P", "Q", "R", "S", "T", "U", "V", "W", "X", "Y", "Z">>

ascii_lowercase ==
    <<"a", "b", "c", "d", "e", "f", "g", "h", "i", "j", "k", "l", "m",
      "n", "o", "p", "q", "r", "s", "t", "u", "v", "w", "x", "y", "z">>

\* the lower-case form of every cased character
ToLower == [c \in {ascii_uppercase[i] : i \in 1..Len(ascii_uppercase)} |->
              ascii_lowercase[CHOOSE i \in 1..Len(ascii_uppercase) : ascii_uppercase[i] = c]]

\* str.lower() of one character: only cased characters change
LowerChar(c) == IF c \in DOMAIN ToLower THEN ToLower[c] ELSE c

\* str.lower()
Lower(s) == [i \in 1..Len(s) |-> LowerChar(s[i])]

\* the characters str.strip() removes
Whitespace == {" ", "\n", "\t", "\r"}

\* a strip that removes nothing
strip_nothing(s) == s

\* str.strip(): drops leading and trailing whitespace, keeps inner whitespace
Strip(s) ==
    LET keep == {i \in 1..Len(s) : s[i] \notin Whitespace}
    IN  IF keep = {} THEN << >>
        ELSE LET lo == CHOOSE i \in keep : \A j \in keep : i <= j
                 hi == CHOOSE i \in keep : \A j \in keep : j <= i
             IN  SubSeq(s, lo, hi)

\* Python's `k in s` on strings: k occurs in s as a contiguous run
Contains(s, k) ==
    \E i \in 0..(Len(s) - Len(k)) : \A j \in 1..Len(k) : s[i + j] = k[j]

\* str.endswith
EndsWith(s, k) ==
    /\ Len(k) <= Len(s)
    /\ SubSeq(s, Len(s) - Len(k) + 1, Len(s)) = k

Digits == <<"0", "1", "2", "3", "4", "5", "6", "7", "8", "9">>

\* str(n) of a non-negative integer
RECURSIVE IntStr(_)
IntStr(n) ==
    IF n < 10 THEN <<Digits[n + 1]>>
    ELSE IntStr(n \div 10) \o <<Digits[(n % 10) + 1]>>

(***************************************************************************)
(* GPTOSSModel._generate_text_response: the keyword responder.             *)
(***************************************************************************)
KeyHello ==
    <<"h", "e", "l", "l", "o">>

ReplyHello ==
    <<
    "H", "e", "l", "l", "o", "!", " ", "I", "'", "m", " ", "y", "o", "u",
    "r", " ", "G", "P", "T", "-", "O", "S", "S", " ", "a", "s", "s", "i",
    "s", "t", "a", "n", "t", ".", " ", "H", "o", "w", " ", "c", "a", "n",
    " ", "I", " ", "h", "e", "l", "p", " ", "y", "o", "u", " ", "t", "o",
    "d", "a", "y", "?" >>

KeyHi ==
    <<"h", "i">>

ReplyHi ==
    <<
    "H", "i", " ", "t", "h", "e", "r", "e", "!", " ", "I", " ", "c", "a",
    "n", " ", "h", "e", "l", "p", " ", "y", "o", "u", " ", "a", "n", "a",
    "l", "y", "z", "e", " ", "d", "a", "t", "a", ",", " ", "i", "m", "a",
    "g", "e", "s", ",", " ", "a", "n", "d", " ", "a", "n", "s", "w", "e",
    "r", " ", "q", "u", "e", "s", "t", "i", "o", "n", "s", "." >>

KeyHelp ==
    <<"h", "e", "l", "p">>

ReplyHelp ==
    <<
    "I", " ", "c", "a", "n", ":", "\n", "U+2022", " ", "A", "n", "a", "l", "y",
    "z", "e", " ", "C", "S", "V", " ", "d", "a", "t", "a", "\n", "U+2022", " ",
    "P", "r", "o", "c", "e", "s", "s", " ", "i", "m", "a", "g", "e", "s",
    "\n", "U+2022", " ", "A", "n", "s", "w", "e", "r", " ", "q", "u", "e", "s",
    "t", "i", "o", "n", "s", "\n", "U+2022", " ", "P", "r", "o", "v", "i", "d",
    "e", " ", "E", "a", "r", "t", "h", " ", "O", "b", "s", "e", "r", "v",
    "a", "t", "i", "o", "n", " ", "i", "n", "s", "i", "g", "h", "t", "s" >>

KeyWhatCanYouDo ==
    <<"w", "h", "a", "t", " ", "c", "a", "n", " ", "y", "o", "u", " ", "d", "o">>

ReplyWhatCanYouDo ==
    <<
    "I", "'", "m", " ", "a", " ", "m", "u", "l", "t", "i", "m", "o", "d",
    "a", "l", " ", "A", "I", " ", "a", "s", "s", "i", "s", "t", "a", "n",
    "t", " ", "t", "h", "a", "t", " ", "c", "a", "n", ":", "\n", "U+1F4CA", " ",
    "A", "n", "a", "l", "y", "z", "e", " ", "C", "S", "V", " ", "d", "a",
    "t", "a", "\n", "U+1F5BC", "U+FE0F", " ", "P", "r", "o", "c", "e", "s", "s", " ",
    "a", "n", "d", " ", "d", "e", "s", "c", "r", "i", "b", "e", " ", "i",
    "m", "a", "g", "e", "s", "\n", "U+1F30D", " ", "P", "r", "o", "v", "i", "d",
    "e", " ", "E", "a", "r", "t", "h", " ", "O", "b", "s", "e", "r", "v",
    "a", "t", "i", "o", "n", " ", "a", "n", "a", "l", "y", "s", "i", "s",
    "\n", "U+1F4AC", " ", "A", "n", "s", "w", "e", "r", " ", "q", "u", "e", "s",
    "t", "i", "o", "n", "s", " ", "u", "s", "i", "n", "g", " ", "a", "v",
    "a", "i", "l", "a", "b", "l", "e", " ", "d", "a", "t", "a" >>

\* the responses dict with help checked before hi (a reordering of the table)
responses_help_first ==
    << <<KeyHello, ReplyHello>>, <<KeyHelp, ReplyHelp>>,
       <<KeyHi, ReplyHi>>, <<KeyWhatCanYouDo, ReplyWhatCanYouDo>> >>

\* the responses dict, in insertion order (the order dict.items() iterates in)
responses ==
    << <<KeyHello, ReplyHello>>, <<KeyHi, ReplyHi>>,
       <<KeyHelp, ReplyHelp>>, <<KeyWhatCanYouDo, ReplyWhatCanYouDo>> >>

EchoPrefix ==
    <<
    "I", " ", "u", "n", "d", "e", "r", "s", "t", "a", "n", "d", " ", "y",
    "o", "u", "'", "r", "e", " ", "a", "s", "k", "i", "n", "g", " ", "a",
    "b", "o", "u", "t", ":", " " >>

EchoSuffix ==
    <<
    ".", " ", "I", " ", "c", "a", "n", " ", "h", "e", "l", "p", " ", "y",
    "o", "u", " ", "a", "n", "a", "l", "y", "z", "e", " ", "t", "h", "i",
    "s", " ", "u", "s", "i", "n", "g", " ", "a", "v", "a", "i", "l", "a",
    "b", "l", "e", " ", "d", "a", "t", "a", " ", "a", "n", "d", " ", "m",
    "o", "d", "e", "l", "s", "." >>

\* the loop `for key, response in responses.items()` from entry i on, then the
\* default f-string
RECURSIVE responses_loop(_, _, _)
responses_loop(i, lower_input, text) ==
    IF i > Len(responses) THEN EchoPrefix \o text \o EchoSuffix
    ELSE IF Contains(lower_input, responses[i][1]) THEN responses[i][2]
    ELSE responses_loop(i + 1, lower_input, text)

generate_text_response(text) == responses_loop(1, Lower(text), text)

(***************************************************************************)
(* The tabular store: the data directory, load_csv_data, search_csv_data.  *)
(* A cell is [t, v]: t is "str", "int" or "nan", v its text as str() gives *)
(* it. A table (DataFrame) is [columns, rows], each row aligned with the   *)
(* columns. A dict is a sequence of <<key, value>> pairs in insertion      *)
(* order, the order .items() iterates in.                                  *)
(***************************************************************************)
StrCell(v) == [t |-> "str", v |-> v]
IntCell(n) == [t |-> "int", v |-> IntStr(n)]
NanCell == [t |-> "nan", v |-> <<"n", "a", "n">>]

Unparsable == [unparsable |-> TRUE]

CitiesCsv == <<"c", "i", "t", "i", "e", "s", ".", "c", "s", "v">>
NotesCsv == <<"n", "o", "t", "e", "s", ".", "c", "s", "v">>
BrokenCsv == <<"b", "r", "o", "k", "e", "n", ".", "c", "s", "v">>
ReadmeTxt == <<"r", "e", "a", "d", "m", "e", ".", "t", "x", "t">>
ColName == <<"n", "a", "m", "e">>
ColN == <<"n">>
ColText == <<"t", "e", "x", "t">>

CitiesOld ==
    [columns |-> <<ColName, ColN>>,
     rows |-> << <<StrCell(<<"R", "o", "m", "e">>), IntCell(1)>>,
                 <<StrCell(<<"H", "i", "l", "o">>), IntCell(2)>> >>]

CitiesNew ==
    [columns |-> <<ColName, ColN>>,
     rows |-> << <<StrCell(<<"O", "s", "l", "o">>), IntCell(3)>>,
                 <<StrCell(<<"R", "o", "m", "e">>), IntCell(4)>> >>]

Notes ==
    [columns |-> <<ColText, ColN>>,
     rows |-> << <<StrCell(<<"O", "s", "l", "o", " ", "f", "j", "o", "r", "d">>), IntCell(5)>>,
                 <<NanCell, IntCell(6)>> >>]

\* the states of the data directory: os.listdir order, file name, file content
DataDirs ==
    { << >>,
      << <<CitiesCsv, CitiesOld>> >>,
      << <<ReadmeTxt, Unparsable>>, <<NotesCsv, Notes>>,
         <<BrokenCsv, Unparsable>>, <<CitiesCsv, CitiesNew>> >> }

CsvSuffix == <<".", "c", "s", "v">>

\* load_csv_data over the directory listing from entry i on: every *.csv file that
\* pd.read_csv parses is added, one that raises is skipped
RECURSIVE load_csv_loop(_, _)
load_csv_loop(listing, i) ==
    IF i > Len(listing) THEN << >>
    ELSE LET file == listing[i][1]
             content == listing[i][2]
         IN  IF EndsWith(file, CsvSuffix) /\ content # Unparsable
             THEN << <<file, content>> >> \o load_csv_loop(listing, i + 1)
             ELSE load_csv_loop(listing, i + 1)

\* load_csv_data: a new dict object (id) holding the tables read from the directory
load_csv_data(listing, id) == [id |-> id, tables |-> load_csv_loop(listing, 1)]

\* df[col].dtype == 'object': a column read from text that holds a string
IsObjectColumn(df, j) == \E r \in 1..Len(df.rows) : df.rows[r][j].t = "str"

\* df[col].str.contains(query, case=False, na=False) on one cell, for a query
\* without regular-expression metacharacters
CellContains(cell, query) ==
    /\ cell.t = "str"
    /\ Contains(Lower(cell.v), Lower(query))

\* row.to_dict(): column name -> cell, in column order
RowDict(df, r) == [j \in 1..Len(df.columns) |-> <<df.columns[j], df.rows[r][j]>>]

\* the matching rows of column j from row r on, in row order
RECURSIVE column_hits(_, _, _, _, _, _)
column_hits(filename, df, j, r, query, id) ==
    IF r > Len(df.rows) THEN << >>
    ELSE (IF CellContains(df.rows[r][j], query)
          THEN << [file |-> filename, column |-> df.columns[j],
                   data |-> RowDict(df, r), dict |-> id] >>
          ELSE << >>)
         \o column_hits(filename, df, j, r + 1, query, id)

\* the loop `for col in df.columns` from column j on
RECURSIVE table_hits(_, _, _, _, _)
table_hits(filename, df, j, query, id) ==
    IF j > Len(df.columns) THEN << >>
    ELSE (IF IsObjectColumn(df, j)
          THEN column_hits(filename, df, j, 1, query, id)
          ELSE << >>)
         \o table_hits(filename, df, j + 1, query, id)

\* the loop `for filename, df in self.csv_data.items()` over one dict object,
\* from item i on
RECURSIVE search_csv_loop(_, _, _)
search_csv_loop(dict, i, query) ==
    IF i > Len(dict.tables) THEN << >>
    ELSE table_hits(dict.tables[i][1], dict.tables[i][2], 1, query, dict.id)
         \o search_csv_loop(dict, i + 1, query)

\* GPTOSSModel.search_csv_data, run without interruption on the dict object that
\* self.csv_data is bound to when the loop starts
search_csv_data(dict, query) == search_csv_loop(dict, 1, query)

(***************************************************************************)
(* The media analyzer and the response composer.                           *)
(***************************************************************************)
CsvContextHead ==
    <<
    "R", "e", "l", "e", "v", "a", "n", "t", " ", "d", "a", "t", "a", " ",
    "f", "o", "u", "n", "d", ":", "\n" >>

CsvPromptHead ==
    <<
    "B", "a", "s", "e", "d", " ", "o", "n", " ", "t", "h", "e", " ", "f",
    "o", "l", "l", "o", "w", "i", "n", "g", " ", "d", "a", "t", "a", " ",
    "a", "n", "d", " ", "c", "o", "n", "t", "e", "x", "t", ":", "\n", "\n" >>

ImagePromptHead ==
    <<
    "I", "m", "a", "g", "e", " ", "A", "n", "a", "l", "y", "s", "i", "s",
    ":", " " >>

CsvPromptImage ==
    <<
    "\n", "\n", "I", "m", "a", "g", "e", " ", "A", "n", "a", "l", "y", "s",
    "i", "s", ":", " " >>

PromptQuestion ==
    <<
    "\n", "\n", "U", "s", "e", "r", " ", "Q", "u", "e", "s", "t", "i", "o",
    "n", ":", " " >>

CsvPromptTail ==
    <<
    "\n", "\n", "P", "l", "e", "a", "s", "e", " ", "p", "r", "o", "v", "i",
    "d", "e", " ", "a", " ", "h", "e", "l", "p", "f", "u", "l", " ", "r",
    "e", "s", "p", "o", "n", "s", "e", " ", "u", "s", "i", "n", "g", " ",
    "t", "h", "e", " ", "a", "v", "a", "i", "l", "a", "b", "l", "e", " ",
    "d", "a", "t", "a", "." >>

ImagePromptTail ==
    <<
    "\n", "\n", "P", "l", "e", "a", "s", "e", " ", "p", "r", "o", "v", "i",
    "d", "e", " ", "a", " ", "r", "e", "s", "p", "o", "n", "s", "e", " ",
    "b", "a", "s", "e", "d", " ", "o", "n", " ", "t", "h", "e", " ", "i",
    "m", "a", "g", "e", " ", "a", "n", "a", "l", "y", "s", "i", "s", "." >>

AnalyzedPrefix ==
    <<
    "A", "n", "a", "l", "y", "z", "e", "d", " ", "i", "m", "a", "g", "e",
    ":", " " >>

PlaceholderText ==
    <<
    "I", "m", "a", "g", "e", " ", "p", "l", "a", "c", "e", "h", "o", "l",
    "d", "e", "r", " ", "f", "i", "l", "e" >>

DescriptionMarker ==
    <<
    "D", "e", "s", "c", "r", "i", "p", "t", "i", "o", "n", ":" >>

UploadDir ==
    <<
    "s", "t", "a", "t", "i", "c", "/", "u", "p", "l", "o", "a", "d", "s",
    "/" >>

TxtSuffix == <<".", "t", "x", "t">>

\* str.find(k, start): the least 0-based index >= start where k occurs, else -1
Find(s, k, start) ==
    LET at == {i \in start..(Len(s) - Len(k)) : \A j \in 1..Len(k) : s[i + j] = k[j]}
    IN  IF at = {} THEN -1 ELSE CHOOSE i \in at : \A j \in at : i <= j

\* s[a:b] for 0 <= a, with a negative b counted from the end
Slice(s, a, b) ==
    LET e == IF b < 0 THEN Len(s) + b ELSE b
    IN  SubSeq(s, a + 1, IF e > Len(s) THEN Len(s) ELSE e)

\* os.path.basename
RECURSIVE basename(_)
basename(path) ==
    IF path = << >> \/ path[Len(path)] = "/" THEN << >>
    ELSE basename(SubSeq(path, 1, Len(path) - 1)) \o <<path[Len(path)]>>

\* GPTOSSModel.analyze_image on a readable file with this text content
analyze_image(image_path, content) ==
    IF EndsWith(image_path, TxtSuffix)
    THEN IF Contains(content, DescriptionMarker)
         THEN LET desc_start == Find(content, DescriptionMarker, 0) + Len(DescriptionMarker)
                  desc_end == Find(content, <<"\n">>, desc_start)
              IN  Strip(Slice(content, desc_start, desc_end))
         ELSE PlaceholderText
    ELSE AnalyzedPrefix \o basename(image_path)

\* repr() of a cell inside str(dict): a string is quoted, a number is not
CellRepr(cell) == IF cell.t = "str" THEN <<"'">> \o cell.v \o <<"'">> ELSE cell.v

\* the items of str(row.to_dict()) from item j on
RECURSIVE dict_items_str(_, _)
dict_items_str(data, j) ==
    IF j > Len(data) THEN << >>
    ELSE (IF j > 1 THEN <<",", " ">> ELSE << >>)
         \o <<"'">> \o data[j][1] \o <<"'", ":", " ">> \o CellRepr(data[j][2])
         \o dict_items_str(data, j + 1)

DictStr(data) == <<"{">> \o dict_items_str(data, 1) \o <<"}">>

\* how many hits _generate_response_with_csv quotes: csv_results[:3]
ContextLimit == 3

\* the loop over enumerate(csv_results[:3]) from index i on (1-based here)
RECURSIVE csv_context_loop(_, _)
csv_context_loop(csv_results, i) ==
    IF i > Len(csv_results) \/ i > ContextLimit THEN << >>
    ELSE IntStr(i) \o <<".", " ", "F", "r", "o", "m", " ">> \o csv_results[i].file
         \o <<":", " ">> \o DictStr(csv_results[i].data) \o <<"\n">>
         \o csv_context_loop(csv_results, i + 1)

generate_response_with_csv(text, csv_results, image_analysis) ==
    generate_text_response(
        CsvPromptHead \o CsvContextHead \o csv_context_loop(csv_results, 1)
        \o CsvPromptImage \o image_analysis \o PromptQuestion \o text \o CsvPromptTail)

generate_response_with_image(text, image_analysis) ==
    generate_text_response(
        ImagePromptHead \o image_analysis \o PromptQuestion \o text \o ImagePromptTail)

\* the search generate_response runs: search_csv_data, when use_csv is set and the
\* dict is not empty
csv_results_of(text, use_csv, dict) ==
    IF use_csv /\ dict.tables # << >> THEN search_csv_data(dict, text) ELSE << >>

\* GPTOSSModel.generate_response: its locals and its result. image is NoObject or the
\* saved upload [path, content], which os.path.exists finds.
generate_response(text, image, use_csv, dict) ==
    LET csv_results == csv_results_of(text, use_csv, dict)
        image_analysis == IF image # NoObject THEN analyze_image(image.path, image.content)
                          ELSE << >>
    IN  [csv_results |-> csv_results,
         image_analysis |-> image_analysis,
         branch |-> IF csv_results # << >> THEN "csv"
                    ELSE IF image_analysis # << >> THEN "image" ELSE "text",
         response |-> IF csv_results # << >>
                      THEN generate_response_with_csv(text, csv_results, image_analysis)
                      ELSE IF image_analysis # << >>
                      THEN generate_response_with_image(text, image_analysis)
                      ELSE generate_text_response(text)]

(***************************************************************************)
(* app.py: ChatSession, the session map and the request handlers, each     *)
(* handled from start to end without interruption.                         *)
(***************************************************************************)
Clients == {"alice", "bob"}

\* the values uuid.uuid4() can return
SessionIds == {<<"u", "1">>, <<"u", "2">>}

\* the turns a session keeps: `if len(self.messages) > 50`, `self.messages[-50:]`
HistoryCap == 50

\* how many hits /search_csv returns: results[:10]
SearchLimit == 10

\* ChatSession.__init__
ChatSession(session_id, created_at) ==
    [session_id |-> session_id, messages |-> << >>, created_at |-> created_at]

\* the dict add_message builds; the timestamp is the clock's reading
Message(role, content, image_path, csv_used, timestamp) ==
    [role |-> role, content |-> content, timestamp |-> timestamp,
     image_path |-> image_path, csv_used |-> csv_used]

\* messages[:50]: the oldest turns instead of the newest
keep_first(messages) ==
    SubSeq(messages, 1, IF Len(messages) < HistoryCap THEN Len(messages) ELSE HistoryCap)

\* messages[-51:]: one turn more than the cap
keep_one_more(messages) ==
    SubSeq(messages, IF Len(messages) > HistoryCap + 1 THEN Len(messages) - HistoryCap ELSE 1,
           Len(messages))

\* self.messages[-50:]
keep_last(messages) ==
    SubSeq(messages, IF Len(messages) > HistoryCap THEN Len(messages) - HistoryCap + 1 ELSE 1,
           Len(messages))

\* ChatSession.add_message on the turn list: append, then keep the last 50
add_message(messages, message) ==
    LET grown == Append(messages, message)
    IN  IF Len(grown) > HistoryCap THEN keep_last(grown) ELSE grown

\* the count of the user's own turns only
message_count_user_only(messages) ==
    Cardinality({i \in 1..Len(messages) : messages[i].role = "user"})

\* 'message_count': len(chat_session.messages)
message_count(messages) == Len(messages)

\* bool(image_file): no file part, or a file part with an empty filename, is falsy
HasImage(image_file) == image_file # NoObject /\ image_file.filename # << >>

\* the f-string that names the upload
upload_path(session_id, clock, filename) ==
    UploadDir \o session_id \o <<"_">> \o IntStr(clock) \o <<"_">> \o filename

\* image_file.save(image_path) opens the path for writing: a filename with a
\* directory part names a directory that does not exist, and open() raises
save_raises(filename) == \E i \in 1..Len(filename) : filename[i] = "/"

ErrorPrefix ==
    <<
    "E", "r", "r", "o", "r", " ", "g", "e", "n", "e", "r", "a", "t", "i",
    "n", "g", " ", "r", "e", "s", "p", "o", "n", "s", "e", ":", " " >>

NoSessionError == <<
    "N", "o", " ", "s", "e", "s", "s", "i", "o", "n", " ", "f", "o", "u",
    "n", "d" >>

NoInputError == <<
    "N", "o", " ", "m", "e", "s", "s", "a", "g", "e", " ", "o", "r", " ",
    "i", "m", "a", "g", "e", " ", "p", "r", "o", "v", "i", "d", "e", "d" >>

\* chat_sessions with the caller's session created when it is missing (lines 47-48)
with_session(sessions, session_id, clock) ==
    IF session_id \in DOMAIN sessions THEN sessions
    ELSE sessions @@ (session_id :> ChatSession(session_id, clock))

\* the turn list of a session, as /history returns it
history_of(sessions, session_id) ==
    IF session_id \in DOMAIN sessions THEN sessions[session_id].messages ELSE << >>

\* the log of appends of an existing or missing session
log_of(log, session_id) == IF session_id \in DOMAIN log THEN log[session_id] ELSE << >>

raceVars == <<workers>>
reloadVars == <<searches, reloader>>
textVars == <<text_input, text_response>>
storeVars == <<csv_data, data_dir, loads>>

\* GET /
home(c) ==
    /\ request' = [route |-> "home", client |-> c]
    /\ reply' = [status |-> 200]
    /\ IF session[c] = None
       THEN \E id \in SessionIds :
              /\ \A d \in Clients : session[d] # id
              /\ id \notin DOMAIN chat_sessions
              /\ session' = [session EXCEPT ![c] = id]
              /\ chat_sessions' = chat_sessions @@ (id :> ChatSession(id, now))
       ELSE UNCHANGED <<session, chat_sessions>>
    /\ UNCHANGED <<storeVars, now, composed, appended, raceVars, reloadVars, textVars>>

\* POST /chat with form field message, file part image_file, form field use_csv;
\* raised is NoObject, or the exception generate_response raises
chat(c, message, image_file, use_csv, raised) ==
    /\ request' = [route |-> "chat", client |-> c, message |-> message,
                   image |-> image_file, use_csv |-> use_csv, raised |-> raised]
    /\ IF session[c] = None
       THEN /\ reply' = [status |-> 400, error |-> NoSessionError]
            /\ UNCHANGED <<chat_sessions, now, composed, appended>>
       ELSE LET session_id == session[c]
                sessions == with_session(chat_sessions, session_id, now)
                user_message == Strip(message)
                image_path == IF HasImage(image_file)
                              THEN upload_path(session_id, now, image_file.filename)
                              ELSE None
                saved == IF image_path = None THEN NoObject
                         ELSE [path |-> image_path, content |-> image_file.content]
                user_turn == Message("user", user_message, image_path, FALSE, now)
                with_user == add_message(sessions[session_id].messages, user_turn)
                locals == generate_response(user_message, saved, use_csv, csv_data)
                error_msg == ErrorPrefix \o raised.str
                reply_turn == IF raised = NoObject
                              THEN Message("assistant", locals.response, None, use_csv, now + 1)
                              ELSE Message("assistant", error_msg, None, FALSE, now + 1)
                with_reply == add_message(with_user, reply_turn)
            IN  IF user_message = << >> /\ ~HasImage(image_file)
                THEN /\ reply' = [status |-> 400, error |-> NoInputError]
                     /\ chat_sessions' = sessions
                     /\ UNCHANGED <<now, composed, appended>>
                ELSE IF image_path # None /\ save_raises(image_file.filename)
                THEN /\ reply' = [status |-> 500, unhandled |-> TRUE]
                     /\ chat_sessions' = sessions
                     /\ UNCHANGED <<now, composed, appended>>
                ELSE /\ chat_sessions' = [sessions EXCEPT ![session_id].messages = with_reply]
                     /\ appended' = (session_id :> (log_of(appended, session_id)
                                                    \o <<user_turn, reply_turn>>)) @@ appended
                     /\ now' = now + 2
                     /\ IF raised = NoObject
                        THEN /\ composed' = locals
                             /\ reply' = [status |-> 200, success |-> TRUE,
                                          response |-> locals.response,
                                          session_id |-> session_id,
                                          message_count |-> message_count(with_reply),
                                          csv_used |-> use_csv]
                        ELSE /\ composed' = NoObject
                             /\ reply' = [status |-> 500, error |-> error_msg]
    /\ UNCHANGED <<session, storeVars, raceVars, reloadVars, textVars>>

\* GET /history
get_history(c) ==
    /\ request' = [route |-> "history", client |-> c]
    /\ reply' = [status |-> 200,
                 messages |-> IF session[c] = None THEN << >>
                              ELSE history_of(chat_sessions, session[c])]
    /\ UNCHANGED <<session, chat_sessions, storeVars, now, composed, appended,
                   raceVars, reloadVars, textVars>>

\* results[:10]
first_results(results) ==
    SubSeq(results, 1, IF Len(results) < SearchLimit THEN Len(results) ELSE SearchLimit)

\* GET /search_csv?q=
search_csv(c, query) ==
    /\ request' = [route |-> "search_csv", client |-> c, q |-> query]
    /\ reply' = [status |-> 200,
                 results |-> IF query = << >> THEN << >>
                             ELSE first_results(search_csv_data(csv_data, query))]
    /\ UNCHANGED <<session, chat_sessions, storeVars, now, composed, appended,
                   raceVars, reloadVars, textVars>>

\* a clear that leaves the turns in place
clear_nothing(messages) == messages

\* `chat_sessions[session_id].messages = []`
cleared(messages) == << >>

\* POST /clear_history
clear_history(c) ==
    /\ request' = [route |-> "clear_history", client |-> c]
    /\ reply' = [status |-> 200, success |-> TRUE]
    /\ IF session[c] # None /\ session[c] \in DOMAIN chat_sessions
       THEN /\ chat_sessions' = [chat_sessions EXCEPT ![session[c]].messages = cleared(@)]
            /\ appended' = (session[c] :> << >>) @@ appended
       ELSE UNCHANGED <<chat_sessions, appended>>
    /\ UNCHANGED <<session, storeVars, now, composed, raceVars, reloadVars, textVars>>

\* the operator of the host changes the files of the data directory
edit_data ==
    /\ \E d \in DataDirs : d # data_dir /\ data_dir' = d
    /\ UNCHANGED <<session, chat_sessions, csv_data, loads, now, request, reply,
                   composed, appended, raceVars, reloadVars, textVars>>

\* the process is started again: the module-level state is rebuilt (chat_sessions
\* = {}, GPTOSSModel()), the clients keep their signed cookies (the secret key is
\* fixed)
restart ==
    /\ chat_sessions' = << >>
    /\ appended' = << >>
    /\ loads' = 1
    /\ csv_data' = load_csv_data(data_dir, 1)
    /\ request' = [route |-> "none"]
    /\ reply' = [status |-> 0]
    /\ composed' = NoObject
    /\ UNCHANGED <<session, data_dir, now, raceVars, reloadVars, textVars>>

(***************************************************************************)
(* POST /chat interleaved with other requests at the steps of add_message: *)
(* the append, the length test, the slice of the last 50 and the           *)
(* reassignment of self.messages. A worker is a request in flight; its     *)
(* record holds the handler's locals and its place in the code.            *)
(***************************************************************************)
Idle == [pc |-> "idle"]

\* the place after add_message returns: generation after the user turn, the reply
\* after the assistant turn
after_add_message(worker) ==
    [worker EXCEPT !.pc = IF worker.stage = "user" THEN "generate" ELSE "respond"]

\* chat up to the first add_message call (lines 43-69): validation, session lookup
\* and upload; a rejected request is answered at once
chat_begin(w, c, message, image_file, use_csv, raised) ==
    /\ workers[w] = Idle
    /\ IF session[c] = None
       THEN /\ reply' = [status |-> 400, error |-> NoSessionError]
            /\ request' = [route |-> "chat", client |-> c, message |-> message,
                           image |-> image_file, use_csv |-> use_csv, raised |-> raised]
            /\ UNCHANGED <<chat_sessions, workers>>
       ELSE LET session_id == session[c]
                sessions == with_session(chat_sessions, session_id, now)
                user_message == Strip(message)
                image_path == IF HasImage(image_file)
                              THEN upload_path(session_id, now, image_file.filename)
                              ELSE None
            IN  /\ chat_sessions' = sessions
                /\ IF user_message = << >> /\ ~HasImage(image_file)
                   THEN /\ reply' = [status |-> 400, error |-> NoInputError]
                        /\ request' = [route |-> "chat", client |-> c, message |-> message,
                                       image |-> image_file, use_csv |-> use_csv,
                                       raised |-> raised]
                        /\ UNCHANGED workers
                   ELSE IF image_path # None /\ save_raises(image_file.filename)
                   THEN /\ reply' = [status |-> 500, unhandled |-> TRUE]
                        /\ request' = [route |-> "chat", client |-> c, message |-> message,
                                       image |-> image_file, use_csv |-> use_csv,
                                       raised |-> raised]
                        /\ UNCHANGED workers
                   ELSE /\ workers' = [workers EXCEPT ![w] =
                              [pc |-> "append", stage |-> "user", client |-> c,
                               session_id |-> session_id, message |-> message,
                               image |-> image_file, use_csv |-> use_csv, raised |-> raised,
                               role |-> "user", content |-> user_message,
                               image_path |-> image_path, csv_used |-> FALSE,
                               sliced |-> << >>, response |-> << >>]]
                        /\ UNCHANGED <<request, reply>>
    /\ UNCHANGED <<session, storeVars, now, composed, appended, reloadVars, textVars>>

\* add_message lines 20-27: the message dict is built and appended to the list
\* that self.messages is bound to
add_message_append(w) ==
    LET worker == workers[w]
        message == Message(worker.role, worker.content, worker.image_path,
                           worker.csv_used, now)
    IN  /\ worker.pc = "append"
        /\ chat_sessions' = [chat_sessions EXCEPT
                               ![worker.session_id].messages = Append(@, message)]
        /\ appended' = (worker.session_id :>
                          Append(log_of(appended, worker.session_id), message)) @@ appended
        /\ now' = now + 1
        /\ workers' = [workers EXCEPT ![w].pc = "test"]
        /\ UNCHANGED <<session, storeVars, request, reply, composed, reloadVars, textVars>>

\* line 30: `if len(self.messages) > 50`
add_message_test(w) ==
    LET worker == workers[w]
    IN  /\ worker.pc = "test"
        /\ workers' = [workers EXCEPT ![w] =
                         IF Len(chat_sessions[worker.session_id].messages) > HistoryCap
                         THEN [worker EXCEPT !.pc = "slice"]
                         ELSE after_add_message(worker)]
        /\ UNCHANGED <<session, chat_sessions, storeVars, now, request, reply, composed,
                       appended, reloadVars, textVars>>

\* line 31, right-hand side: self.messages[-50:] builds a new list
add_message_slice(w) ==
    LET worker == workers[w]
    IN  /\ worker.pc = "slice"
        /\ workers' = [workers EXCEPT
                         ![w].sliced = keep_last(chat_sessions[worker.session_id].messages),
                         ![w].pc = "assign"]
        /\ UNCHANGED <<session, chat_sessions, storeVars, now, request, reply, composed,
                       appended, reloadVars, textVars>>

\* line 31, the store: self.messages is bound to the new list
add_message_assign(w) ==
    LET worker == workers[w]
    IN  /\ worker.pc = "assign"
        /\ chat_sessions' = [chat_sessions EXCEPT
                               ![worker.session_id].messages = worker.sliced]
        /\ workers' = [workers EXCEPT ![w] = after_add_message([worker EXCEPT !.sliced = << >>])]
        /\ UNCHANGED <<session, storeVars, now, request, reply, composed, appended,
                       reloadVars, textVars>>

\* lines 71-80 and 90-92 up to the second add_message call: the response, or the
\* error text of the exception generation raised
chat_generate(w) ==
    LET worker == workers[w]
        saved == IF worker.image_path = None THEN NoObject
                 ELSE [path |-> worker.image_path, content |-> worker.image.content]
        locals == generate_response(worker.content, saved, worker.use_csv, csv_data)
    IN  /\ worker.pc = "generate"
        /\ IF worker.raised = NoObject
           THEN /\ composed' = locals
                /\ workers' = [workers EXCEPT ![w] =
                     [worker EXCEPT !.pc = "append", !.stage = "assistant",
                                    !.role = "assistant", !.content = locals.response,
                                    !.image_path = None, !.csv_used = worker.use_csv,
                                    !.response = locals.response]]
           ELSE /\ composed' = NoObject
                /\ workers' = [workers EXCEPT ![w] =
                     [worker EXCEPT !.pc = "append", !.stage = "assistant",
                                    !.role = "assistant",
                                    !.content = ErrorPrefix \o worker.raised.str,
                                    !.image_path = None, !.csv_used = FALSE]]
        /\ UNCHANGED <<session, chat_sessions, storeVars, now, request, reply, appended,
                       reloadVars, textVars>>

\* lines 82-88 and 93: the reply, with len(chat_session.messages) as it is now
chat_respond(w) ==
    LET worker == workers[w]
    IN  /\ worker.pc = "respond"
        /\ request' = [route |-> "chat", client |-> worker.client,
                       message |-> worker.message, image |-> worker.image,
                       use_csv |-> worker.use_csv, raised |-> worker.raised]
        /\ reply' = IF worker.raised = NoObject
                    THEN [status |-> 200, success |-> TRUE, response |-> worker.response,
                          session_id |-> worker.session_id,
                          message_count |->
                              message_count(chat_sessions[worker.session_id].messages),
                          csv_used |-> worker.use_csv]
                    ELSE [status |-> 500, error |-> worker.content]
        /\ workers' = [workers EXCEPT ![w] = Idle]
        /\ UNCHANGED <<session, chat_sessions, storeVars, now, composed, appended,
                       reloadVars, textVars>>

(***************************************************************************)
(* The inputs the requests are drawn from, and the bounds of the model.    *)
(***************************************************************************)
\* the clock reading up to which chat requests are accepted
MaxClock == 2

\* how many dict objects load_csv_data may build (reloads and restarts)
MaxLoads == 3

EmptyUpload == [filename |-> << >>, content |-> << >>]
PngUpload == [filename |-> <<"a", ".", "p", "n", "g">>, content |-> << >>]
NestedUpload == [filename |-> <<"d", "/", "a", ".", "p", "n", "g">>, content |-> << >>]
TxtUpload ==
    [filename |-> <<"n", ".", "t", "x", "t">>,
     content |-> <<"D", "e", "s", "c", "r", "i", "p", "t", "i", "o", "n", ":", " ", "O", "s", "l", "o", "\n", "x">>]

\* the forms a POST /chat is submitted with: message, image part, use_csv
ChatForm(message, image_file, use_csv) ==
    [message |-> message, image_file |-> image_file, use_csv |-> use_csv]

ChatForms ==
    { ChatForm(<< >>, NoObject, FALSE),
      ChatForm(<<" ">>, EmptyUpload, TRUE),
      ChatForm(<<" ", "O", "s", "l", "o", " ">>, NoObject, TRUE),
      ChatForm(<<"h", "i", ",", " ", "h", "e", "l", "p", " ", "m", "e">>, NoObject, FALSE),
      ChatForm(<<" ">>, PngUpload, TRUE),
      ChatForm(<< >>, TxtUpload, FALSE),
      ChatForm(<<"R", "o", "m", "e">>, NestedUpload, FALSE) }

Queries == { << >>, <<"o", "s", "l", "o">>, <<"x", "y", "z", "z", "y">> }

\* the exceptions generate_response can end with: str(e) is the text
Exceptions == { [str |-> <<"o", "u", "t", " ", "o", "f", " ", "m", "e", "m", "o", "r", "y">>] }

\* the requests that reach add_message, the only ones that advance the clock
appends_turns(c, form) ==
    /\ session[c] # None
    /\ Strip(form.message) # << >> \/ HasImage(form.image_file)
    /\ ~(HasImage(form.image_file) /\ save_raises(form.image_file.filename))

Init ==
    /\ session = [c \in Clients |-> None]
    /\ chat_sessions = << >>
    /\ data_dir \in DataDirs
    /\ loads = 1
    /\ csv_data = load_csv_data(data_dir, 1)
    /\ now = 0
    /\ request = [route |-> "none"]
    /\ reply = [status |-> 0]
    /\ composed = NoObject
    /\ appended = << >>
    /\ workers = << >>
    /\ searches = << >>
    /\ reloader = NoObject
    /\ text_input = << >>
    /\ text_response = << >>

Next ==
    \/ \E c \in Clients : home(c)
    \/ \E c \in Clients, form \in ChatForms, raised \in {NoObject} \union Exceptions :
          /\ appends_turns(c, form) => now + 2 <= MaxClock
          /\ chat(c, form.message, form.image_file, form.use_csv, raised)
    \/ \E c \in Clients : get_history(c)
    \/ \E c \in Clients, query \in Queries : search_csv(c, query)
    \/ \E c \in Clients : clear_history(c)
    \/ restart

Spec == Init /\ [][Next]_vars

(***************************************************************************)
(* SpecCap: one caller chats, reads and clears its history, each request   *)
(* handled without interruption, until the clock passes the cap.           *)
(***************************************************************************)
\* the clock reading up to which SpecCap, SpecSteps and SpecRace accept chats
CapClock == 54

\* the clock reading from which SpecCap draws the chats from all the forms, with
\* and without a failing generation; before it every chat is the same
VaryFrom == 50

CapClients == {"alice"}

CapForm == ChatForm(<<"h", "i", ",", " ", "h", "e", "l", "p", " ", "m", "e">>, NoObject, FALSE)

InitCap == Init /\ data_dir = << >>

NextCap ==
    \/ \E c \in CapClients : home(c)
    \/ \E c \in CapClients :
          /\ now + 2 <= CapClock
          /\ chat(c, CapForm.message, CapForm.image_file, CapForm.use_csv, NoObject)
    \/ \E c \in CapClients, form \in ChatForms, raised \in {NoObject} \union Exceptions :
          /\ now >= VaryFrom
          /\ now + 2 <= CapClock
          /\ chat(c, form.message, form.image_file, form.use_csv, raised)
    \/ \E c \in CapClients : get_history(c)
    \/ \E c \in CapClients : clear_history(c)

SpecCap == InitCap /\ [][NextCap]_vars

(***************************************************************************)
(* SpecSteps and SpecRace: chat requests of one session run add_message    *)
(* step by step. SpecSteps has one request in flight at a time, SpecRace   *)
(* two.                                                                    *)
(***************************************************************************)
\* the clock reading from which SpecRace lets a chat begin while another is in
\* flight; before it the requests follow one another
RaceFrom == 46

StepWorkers == {"w1"}
RaceWorkers == {"w1", "w2"}

\* the appends the requests in flight have still to make
pending(w) ==
    IF workers[w] = Idle THEN 0
    ELSE IF workers[w].stage = "user"
    THEN (IF workers[w].pc = "append" THEN 2 ELSE 1)
    ELSE (IF workers[w].pc = "append" THEN 1 ELSE 0)

RECURSIVE sum_pending(_)
sum_pending(ws) ==
    IF ws = {} THEN 0
    ELSE LET w == CHOOSE x \in ws : TRUE IN pending(w) + sum_pending(ws \ {w})

NextWorkers ==
    \/ \E c \in CapClients : home(c)
    \/ \E w \in DOMAIN workers, c \in CapClients :
          /\ now + sum_pending(DOMAIN workers) + 2 <= CapClock
          /\ now >= RaceFrom \/ \A v \in DOMAIN workers : workers[v] = Idle
          /\ chat_begin(w, c, CapForm.message, CapForm.image_file, CapForm.use_csv, NoObject)
    \/ \E w \in DOMAIN workers : add_message_append(w)
    \/ \E w \in DOMAIN workers : add_message_test(w)
    \/ \E w \in DOMAIN workers : add_message_slice(w)
    \/ \E w \in DOMAIN workers : add_message_assign(w)
    \/ \E w \in DOMAIN workers : chat_generate(w)
    \/ \E w \in DOMAIN workers : chat_respond(w)

\* requests are handled one at a time: a clear runs while no chat is in flight
NextSteps ==
    \/ NextWorkers
    \/ \E c \in CapClients : (\A w \in DOMAIN workers : workers[w] = Idle) /\ clear_history(c)

InitWorkers(ws) ==
    /\ session = [c \in Clients |-> None]
    /\ chat_sessions = << >>
    /\ data_dir = << >>
    /\ loads = 1
    /\ csv_data = load_csv_data(data_dir, 1)
    /\ now = 0
    /\ request = [route |-> "none"]
    /\ reply = [status |-> 0]
    /\ composed = NoObject
    /\ appended = << >>
    /\ workers = [w \in ws |-> Idle]
    /\ searches = << >>
    /\ reloader = NoObject
    /\ text_input = << >>
    /\ text_response = << >>

SpecSteps == InitWorkers(StepWorkers) /\ [][NextSteps]_vars

SpecRace == InitWorkers(RaceWorkers) /\ [][NextWorkers]_vars

(***************************************************************************)
(* SpecReload: POST /reload_csv interleaved with searches. A search is a   *)
(* call of search_csv_data, from /search_csv or from generate_response     *)
(* (use_csv), that visits one table per step; the reload builds the new    *)
(* dict and then binds gptoss_model.csv_data to it.                        *)
(***************************************************************************)
Searchers == {"s1"}

SearchQueries == { << >>, <<"o">> }

NoSearch == [pc |-> "idle"]

\* the dict object every iteration of the loop reads again from self.csv_data
rebound_dict(search) == csv_data

\* the dict object the loop iterates over: the one self.csv_data was bound to when
\* .items() was evaluated
loop_dict(search) == search.dict

\* GET /search_csv up to the call (lines 123-127): an empty q is answered at once
search_csv_begin(s, c, query) ==
    /\ searches[s] = NoSearch
    /\ IF query = << >>
       THEN /\ request' = [route |-> "search_csv", client |-> c, q |-> query]
            /\ reply' = [status |-> 200, results |-> << >>]
            /\ UNCHANGED searches
       ELSE /\ searches' = [searches EXCEPT ![s] =
                  [pc |-> "call", caller |-> "search_csv", client |-> c, query |-> query,
                   begun |-> 0, dict |-> NoObject, i |-> 0, results |-> << >>]]
            /\ UNCHANGED <<request, reply>>
    /\ UNCHANGED <<session, chat_sessions, storeVars, now, composed, appended,
                   raceVars, reloader, textVars>>

\* generate_response line 70, with use_csv set: `if use_csv and self.csv_data`
\* reads the binding once; an empty dict means no search
generate_response_begin(s, text) ==
    /\ searches[s] = NoSearch
    /\ IF csv_data.tables = << >>
       THEN /\ composed' = [csv_results |-> << >>]
            /\ UNCHANGED searches
       ELSE /\ searches' = [searches EXCEPT ![s] =
                  [pc |-> "call", caller |-> "generate_response", client |-> "", query |-> text,
                   begun |-> 0, dict |-> NoObject, i |-> 0, results |-> << >>]]
            /\ UNCHANGED composed
    /\ UNCHANGED <<session, chat_sessions, storeVars, now, request, reply, appended,
                   raceVars, reloader, textVars>>

\* search_csv_data lines 46-48: results = [], and self.csv_data.items() is
\* evaluated on the dict bound at this moment
search_csv_data_call(s) ==
    /\ searches[s].pc = "call"
    /\ searches' = [searches EXCEPT ![s].pc = "loop", ![s].dict = csv_data,
                                    ![s].begun = csv_data.id, ![s].i = 1]
    /\ UNCHANGED <<session, chat_sessions, storeVars, now, request, reply, composed,
                   appended, raceVars, reloader, textVars>>

\* one iteration of `for filename, df in ...items()`: the hits of one table
search_csv_data_table(s) ==
    LET search == searches[s]
        dict == loop_dict(search)
    IN  /\ search.pc = "loop"
        /\ searches' = [searches EXCEPT ![s] =
             IF search.i > Len(dict.tables)
             THEN [search EXCEPT !.pc = "return"]
             ELSE [search EXCEPT
                     !.results = @ \o table_hits(dict.tables[search.i][1],
                                                 dict.tables[search.i][2], 1,
                                                 search.query, dict.id),
                     !.i = @ + 1]]
        /\ UNCHANGED <<session, chat_sessions, storeVars, now, request, reply, composed,
                       appended, raceVars, reloader, textVars>>

\* `return results`, to /search_csv (line 128) or to generate_response (line 71)
search_csv_data_return(s) ==
    LET search == searches[s]
    IN  /\ search.pc = "return"
        /\ searches' = [searches EXCEPT ![s] = NoSearch]
        /\ IF search.caller = "search_csv"
           THEN /\ request' = [route |-> "search_csv", client |-> search.client,
                               q |-> search.query]
                /\ reply' = [status |-> 200, results |-> first_results(search.results)]
                /\ UNCHANGED composed
           ELSE /\ composed' = [csv_results |-> search.results]
                /\ UNCHANGED <<request, reply>>
        /\ UNCHANGED <<session, chat_sessions, storeVars, now, appended, raceVars,
                       reloader, textVars>>

\* reload_csv line 144, right-hand side: load_csv_data() builds a new dict
reload_csv_load(c) ==
    /\ reloader = NoObject
    /\ loads' = loads + 1
    /\ reloader' = [client |-> c, loaded |-> load_csv_data(data_dir, loads + 1)]
    /\ UNCHANGED <<session, chat_sessions, csv_data, data_dir, now, request, reply,
                   composed, appended, raceVars, searches, textVars>>

\* reload_csv line 144, the store, and the reply
reload_csv_store ==
    /\ reloader # NoObject
    /\ csv_data' = reloader.loaded
    /\ request' = [route |-> "reload_csv", client |-> reloader.client]
    /\ reply' = [status |-> 200, success |-> TRUE,
                 files |-> [i \in 1..Len(reloader.loaded.tables) |->
                              reloader.loaded.tables[i][1]]]
    /\ reloader' = NoObject
    /\ UNCHANGED <<session, chat_sessions, data_dir, loads, now, composed, appended,
                   raceVars, searches, textVars>>

InitReload ==
    /\ session = [c \in Clients |-> None]
    /\ chat_sessions = << >>
    /\ data_dir \in DataDirs
    /\ loads = 1
    /\ csv_data = load_csv_data(data_dir, 1)
    /\ now = 0
    /\ request = [route |-> "none"]
    /\ reply = [status |-> 0]
    /\ composed = NoObject
    /\ appended = << >>
    /\ workers = << >>
    /\ searches = [s \in Searchers |-> NoSearch]
    /\ reloader = NoObject
    /\ text_input = << >>
    /\ text_response = << >>

NextReload ==
    \/ \E s \in Searchers, query \in SearchQueries : search_csv_begin(s, "alice", query)
    \/ \E s \in Searchers, text \in SearchQueries : generate_response_begin(s, text)
    \/ \E s \in Searchers : search_csv_data_call(s)
    \/ \E s \in Searchers : search_csv_data_table(s)
    \/ \E s \in Searchers : search_csv_data_return(s)
    \/ loads < MaxLoads /\ reload_csv_load("bob")
    \/ reload_csv_store
    \/ edit_data

SpecReload == InitReload /\ [][NextReload]_vars

(***************************************************************************)
(* SpecText: _generate_text_response applied to one input text.            *)
(***************************************************************************)
\* how many fragments an input text is made of, at most
MaxWords == 2

\* the pieces the input texts are built from
Fragments ==
    { <<"h", "e", "l", "l", "o">>,
      <<"H", "i">>,
      <<"H", "E", "L", "P">>,
      <<"w", "h", "a", "t", " ", "c", "a", "n", " ", "y", "o", "u", " ", "d", "o">>,
      <<"W", "h", "a", "t", " ", "c", "a", "n", " ">>,
      <<"y", "o", "u", " ", "d", "o">>,
      <<"x", "y", "z", "z", "y">>,
      <<"h", "i", ",", " ">>,
      <<"h", "e", "l", "p", " ", "m", "e">>,
      <<"h">>,
      <<"i">>,
      <<"e", "l", "p">>,
      <<"e", "l">>,
      <<"l", "o">> }

\* the texts of at most n fragments
RECURSIVE TextsOf(_)
TextsOf(n) ==
    IF n = 0 THEN { << >> }
    ELSE TextsOf(n - 1) \union {u \o f : u \in TextsOf(n - 1), f \in Fragments}

Texts == TextsOf(MaxWords)

InitText ==
    /\ session = [c \in Clients |-> None]
    /\ chat_sessions = << >>
    /\ data_dir = << >>
    /\ loads = 1
    /\ csv_data = load_csv_data(data_dir, 1)
    /\ now = 0
    /\ request = [route |-> "none"]
    /\ reply = [status |-> 0]
    /\ composed = NoObject
    /\ appended = << >>
    /\ workers = << >>
    /\ searches = << >>
    /\ reloader = NoObject
    /\ text_input \in Texts
    /\ text_response = None

\* the call _generate_text_response(text_input)
respond ==
    /\ text_response = None
    /\ text_response' = generate_text_response(text_input)
    /\ UNCHANGED <<session, chat_sessions, storeVars, now, request, reply, composed,
                   appended, raceVars, reloadVars, text_input>>

SpecText == InitText /\ [][respond]_vars

(***************************************************************************)
(* Claims about the handlers, checked under Spec.                          *)
(***************************************************************************)
\* a text that str.strip() empties
IsBlank(text) == \A i \in 1..Len(text) : text[i] \in Whitespace

\* the last request is a POST /chat with a blank message and no image
BlankChat(req) ==
    /\ req.route = "chat"
    /\ IsBlank(req.message)
    /\ req.image = NoObject \/ req.image.filename = << >>

\* C2: a POST /chat whose message is empty after stripping and that carries no
\* image is answered with status 400 and an error, and appends no turn: every
\* session's turn list is after the request what it was before.
C2_BlankChatRejected ==
    [][BlankChat(request')
         => /\ reply'.status = 400
            /\ "error" \in DOMAIN reply'
            /\ \A id \in SessionIds :
                 history_of(chat_sessions', id) = history_of(chat_sessions, id)
            /\ appended' = appended]_vars

\* C2 witness: a blank chat of a caller whose session holds turns was rejected
C2_Witness ==
    /\ BlankChat(request)
    /\ request.message # << >>
    /\ reply.status = 400
    /\ session[request.client] # None
    /\ history_of(chat_sessions, session[request.client]) # << >>

\* the caller of the last request has nothing to show: no cookie, or no turns
NothingToShow(cookies, sessions, c) ==
    cookies[c] = None \/ history_of(sessions, cookies[c]) = << >>

\* C4: POST /clear_history leaves the caller with an empty turn list, no request
\* of another caller (and no restart) changes that, and GET /history of a caller
\* with an empty turn list, with no cookie or with an identifier unknown to the
\* session map returns the empty sequence: so a history right after the caller's
\* clear is empty.
C4_HistoryEmptyAfterClear ==
    [][/\ request'.route = "clear_history"
            => NothingToShow(session', chat_sessions', request'.client)
       /\ \A c \in Clients :
            (/\ NothingToShow(session, chat_sessions, c)
             /\ request'.route = "none" \/ request'.client # c)
              => NothingToShow(session', chat_sessions', c)
       /\ request'.route = "history"
            => /\ reply'.status = 200
               /\ NothingToShow(session, chat_sessions, request'.client)
                    => reply'.messages = << >>
               /\ session[request'.client] # None
                    => reply'.messages = history_of(chat_sessions, session[request'.client])
      ]_vars

\* C4 witness: a caller chatted, cleared, and was then shown an empty history
C4_Witness ==
    \E c \in Clients :
      /\ request = [route |-> "history", client |-> c]
      /\ reply.messages = << >>
      /\ now > 0
      /\ \A d \in Clients \ {c} : session[d] = None
      /\ session[c] \in DOMAIN chat_sessions
      /\ session[c] \in DOMAIN appended

\* C4 witness: a history for an identifier unknown to the session map
C4_WitnessUnknown ==
    /\ request.route = "history"
    /\ session[request.client] # None
    /\ session[request.client] \notin DOMAIN chat_sessions
    /\ reply.messages = << >>

\* the last request is a POST /chat that passed validation
ValidChat(req, cookies) ==
    /\ req.route = "chat"
    /\ cookies[req.client] # None
    /\ ~BlankChat(req)

\* C6: every POST /chat that passes validation appends exactly one user turn and
\* then one assistant turn; when generation raises the assistant turn holds the
\* error text and the reply is {error} with 500, else the assistant turn holds
\* the response and the reply is a success.
C6_ValidChatAppendsTwoTurns ==
    [][ValidChat(request', session)
         => LET id == session[request'.client]
                log == log_of(appended', id)
                n == Len(log)
            IN  /\ n = Len(log_of(appended, id)) + 2
                /\ SubSeq(log, 1, n - 2) = log_of(appended, id)
                /\ log[n - 1].role = "user"
                /\ log[n].role = "assistant"
                /\ IF request'.raised # NoObject
                   THEN /\ reply'.status = 500
                        /\ reply'.error = log[n].content
                        /\ reply'.error = ErrorPrefix \o request'.raised.str
                   ELSE /\ reply'.status = 200
                        /\ reply'.success
                        /\ reply'.response = log[n].content]_vars

\* C7: a search with the empty query returns no hit, on every path: the route
\* /search_csv, a direct call of search_csv_data, and a chat with use_csv whose
\* message is empty, which never takes the tabular branch of the composer.
C7_EmptyQueryFindsNothing ==
    /\ (request.route = "search_csv" /\ request.q = << >>) => reply.results = << >>
    /\ search_csv_data(csv_data, << >>) = << >>
    /\ (request.route = "chat" /\ reply.status = 200 /\ request.use_csv
          /\ IsBlank(request.message))
         => (composed.csv_results = << >> /\ composed.branch # "csv")

\* C9: a POST /chat answered with a client error (no session, or neither message
\* nor image) changes neither the session map nor the table mapping.
C9_ClientErrorMutatesNothing ==
    [][(request'.route = "chat" /\ reply'.status = 400)
         => /\ "error" \in DOMAIN reply'
            /\ chat_sessions' = chat_sessions
            /\ csv_data' = csv_data]_vars

(***************************************************************************)
(* Claims about the cap of a session's turn list.                          *)
(***************************************************************************)
\* the last min(Len(log), 50) entries of a log of appends, in their order
LastFifty(log) == SubSeq(log, IF Len(log) > 50 THEN Len(log) - 49 ELSE 1, Len(log))

\* no add_message call is between its append and its return
BetweenCalls ==
    \A w \in DOMAIN workers : workers[w].pc \notin {"test", "slice", "assign"}

\* C1: with add_message calls handled one at a time and no clear in between, a
\* session's turn list after the k-th append is the last min(k, 50) appended
\* turns in their order: never more than 50 between calls, the oldest dropped
\* first. (Inside a call, after the append, the list holds one turn more.)
C1_LastFiftyKept ==
    \A id \in DOMAIN chat_sessions :
      LET messages == chat_sessions[id].messages
          log == log_of(appended, id)
      IN  IF BetweenCalls
          THEN messages = LastFifty(log) /\ Len(messages) <= 50
          ELSE Len(messages) <= 51

\* C1 witness: more than 51 turns were appended and the list holds the last 50
C1_Witness ==
    \E id \in DOMAIN chat_sessions :
      /\ BetweenCalls
      /\ Len(log_of(appended, id)) >= 52
      /\ Len(chat_sessions[id].messages) = 50
      /\ chat_sessions[id].messages[1] = appended[id][Len(appended[id]) - 49]

\* C3: a successful POST /chat returns as message_count the number of turns of
\* the session's list right after the call, which is min(50, turns before + 2).
C3_MessageCountIsLength ==
    [][(request'.route = "chat" /\ reply'.status = 200)
         => LET id == session[request'.client]
                before == Len(history_of(chat_sessions, id))
            IN  /\ reply'.message_count = Len(chat_sessions'[id].messages)
                /\ reply'.message_count = IF before + 2 > 50 THEN 50 ELSE before + 2]_vars

\* C3 witness: a chat of a session that was cleared earlier and is at the cap
\* returned 50
C3_Witness ==
    /\ request.route = "chat"
    /\ reply.status = 200
    /\ reply.message_count = 50
    /\ Len(log_of(appended, session[request.client])) >= 52
    /\ now > Len(log_of(appended, session[request.client]))

\* every chat request has completed
AllIdle == \A w \in DOMAIN workers : workers[w] = Idle

\* the turns of a list are turns of the log, in the log's order
InAppendOrder(messages, log) ==
    /\ \A i \in 1..Len(messages) : \E j \in 1..Len(log) : messages[i] = log[j]
    /\ \A i \in 1..(Len(messages) - 1) : messages[i].timestamp < messages[i + 1].timestamp

\* C10 as stated: once the interleaved chat requests of a session have completed,
\* its turn list is the last min(50, total) appended turns in append order.
C10_NoTurnLost ==
    AllIdle => \A id \in DOMAIN chat_sessions :
                 chat_sessions[id].messages = LastFifty(log_of(appended, id))

\* C10 amended: once the interleaved chat requests of a session have completed,
\* its turn list holds at most 50 turns, all of them appended turns, in append
\* order, and all the appended turns while no more than 50 were appended.
C10_AtMostFiftyInOrder ==
    AllIdle => \A id \in DOMAIN chat_sessions :
                 LET messages == chat_sessions[id].messages
                     log == log_of(appended, id)
                 IN  /\ Len(messages) <= 50
                     /\ InAppendOrder(messages, log)
                     /\ Len(log) <= 50 => messages = log

\* C10 witness: the requests have completed and a turn newer than a kept one is
\* missing from the list
C10_Witness ==
    /\ AllIdle
    /\ \E id \in DOMAIN chat_sessions :
         /\ Len(log_of(appended, id)) > 50
         /\ chat_sessions[id].messages # LastFifty(appended[id])
         /\ Len(chat_sessions[id].messages) = 50

(***************************************************************************)
(* Claims about reloads and searches, checked under SpecReload.            *)
(***************************************************************************)
\* C5: however POST /reload_csv interleaves with searches, the hits of one search
\* all come from one dict object, the one bound to csv_data when the search
\* started, never from a mapping replaced before that: what the search has
\* found so far is what the tables of that one dict give.
C5_SearchSeesOneMapping ==
    \A s \in Searchers :
      searches[s].pc \in {"loop", "return"}
        => LET search == searches[s]
           IN  /\ \A h \in 1..Len(search.results) : search.results[h].dict = search.begun
               /\ search.dict.id = search.begun
               /\ search.begun <= csv_data.id
               /\ search.pc = "return"
                    => search.results = search_csv_data(search.dict, search.query)

\* C5 witness: a search has hits from a dict that a reload has replaced while it
\* ran, from two tables of it
C5_Witness ==
    \E s \in Searchers :
      /\ searches[s].pc = "return"
      /\ searches[s].begun < csv_data.id
      /\ csv_data.tables # searches[s].dict.tables
      /\ \E h, k \in 1..Len(searches[s].results) :
           searches[s].results[h].file # searches[s].results[k].file

(***************************************************************************)
(* Claims about the keyword responder, checked under SpecText.             *)
(***************************************************************************)
\* the triggers in the order the claim fixes
Triggers == <<KeyHello, KeyHi, KeyHelp, KeyWhatCanYouDo>>

\* the canned reply the table holds for a trigger, wherever it stands
CannedReply(trigger) ==
    responses[CHOOSE i \in 1..Len(responses) : responses[i][1] = trigger][2]

\* C8: the keyword responder returns the canned reply of the first trigger, in
\* the order hello, hi, help, what can you do, that occurs in the lower-cased
\* input ("hi, help me" gets the hi reply), and with no trigger in it the default
\* echo, which contains the input as typed ("xyzzy" is in the reply to "xyzzy").
C8_FirstTriggerWins ==
    text_response # None
      => LET lowered == Lower(text_input)
             found == {i \in 1..Len(Triggers) : Contains(lowered, Triggers[i])}
         IN  /\ found # {}
                  => text_response =
                       CannedReply(Triggers[CHOOSE i \in found : \A j \in found : i <= j])
             /\ found = {}
                  => /\ Contains(text_response, text_input)
                     /\ text_response = EchoPrefix \o text_input \o EchoSuffix
             /\ text_input = <<"h", "i", ",", " ", "h", "e", "l", "p", " ", "m", "e">> => text_response = ReplyHi
             /\ text_input = <<"x", "y", "z", "z", "y">>
                  => Contains(text_response, <<"x", "y", "z", "z", "y">>)

\* C8 witness: "hi, help me" was answered with the hi reply
C8_Witness ==
    /\ text_input = <<"h", "i", ",", " ", "h", "e", "l", "p", " ", "m", "e">>
    /\ text_response = ReplyHi

====
